---- MODULE Spec2Model ----
(***************************************************************************)
(* Debate-session lifecycle of the market debate page                      *)
(* (frontend/src/app/market/[id]/debate/page.tsx, component DebatePage).   *)
(*                                                                         *)
(* The React state of the component, the EventSource objects it creates,   *)
(* and the requests it has in flight are the state.  Every handler of the  *)
(* component is one action.  A handler is taken to be invocable whenever   *)
(* the element that carries it is rendered; the `disabled` attributes of   *)
(* the checkbox and of the start button repeat the handlers' own guards    *)
(* and are not a second guard in the model, so the handlers' early returns *)
(* are exercised.  A state setter is modelled by its call: the variable    *)
(* holds the last value the code passed to the setter.                     *)
(***************************************************************************)
EXTENDS Integers, Sequences, FiniteSets, TLC

\* ---- bounds of the model ------------------------------------------------
NumModels == 1        \* supported models returned by getModels (lifecycle)
SetupModels == 5      \* supported models returned by getModels (setup phase)
MaxSessions == 2      \* start-session calls issued in one behaviour
MaxMsgs == 2          \* `message` events delivered to one session
MaxRound == 2         \* largest round number carried by a stream event
MaxBadRun == 3        \* consecutive unparsable payloads that are counted

\* ---- program constants ---------------------------------------------------
MaxSelected == 4      \* page.tsx:71
DefaultRounds == 3    \* page.tsx:19
MinRoundChoice == 1   \* page.tsx:321
MaxRoundChoice == 5   \* page.tsx:321

RoundChoices == MinRoundChoice..MaxRoundChoice

\* ---- values --------------------------------------------------------------
Null == 0                         \* null debateId / null ref / null results
NoValue == -1                     \* a field absent from an event payload
NoError == "null"
ErrSelect == "Please select at least one AI model"
ErrStartDefault == "Failed to start debate"
ErrStreamDefault == "An error occurred during the debate"
ErrLost == "Connection to debate stream lost"

SessionIds == 1..MaxSessions
\* what a rejected startDebate call throws: an Error with a message, or a
\* value that is not an Error ("null")
StartFailures == {"HTTP 500", "null"}
\* the message field of an `error` event: a text, the empty text, or absent
StreamErrorMessages == {"model failed", "", "null"}
\* the payloads of `message` events: a turn of round 2 by speaker 1 and a
\* turn of round 1 by speaker 2, so that arrival order, round order and
\* speaker order all differ on some transcript
Turns == {[round |-> 2, model_name |-> 1], [round |-> 1, model_name |-> 2]}

VARIABLES
  models,           \* ids of the supported models loaded at page load
  selectedModels,   \* useState<string[]>([])
  rounds,           \* useState(3)
  status,           \* useState<DebateStatus>('setup')
  debateId,         \* useState<string | null>(null)
  messages,         \* useState<DebateMessage[]>([])
  currentRound,     \* useState(0)
  debateResults,    \* useState<DebateResults | null>(null)
  error,            \* useState<string | null>(null)
  eventSourceRef,   \* useRef<EventSource | null>(null)
  mounted,          \* the component is mounted
  es,               \* the EventSource created for each debate id
  pendingStarts,    \* startDebate requests issued and not yet resolved
  pendingResults,   \* getDebateResults requests issued and not yet resolved
  fetched,          \* number of getDebateResults calls issued per debate id
  started,          \* number of startDebate requests issued so far
  delivered,        \* payloads of the `message` events the current session's
                    \* subscription has handed to its listener, in order
  badRun            \* consecutive events whose payload failed to parse

vars == <<models, selectedModels, rounds, status, debateId, messages,
          currentRound, debateResults, error, eventSourceRef, mounted, es,
          pendingStarts, pendingResults, fetched, started, delivered, badRun>>

\* ---- helpers -------------------------------------------------------------
Includes(s, x) == \E i \in 1..Len(s) : s[i] = x

Filter(s, x) == SelectSeq(s, LAMBDA y : y # x)

NoDuplicates(s) == \A i, j \in 1..Len(s) : i # j => s[i] # s[j]

RemoveAt(s, i) == SubSeq(s, 1, i - 1) \o SubSeq(s, i + 1, Len(s))

\* ---- rendering guards ----------------------------------------------------
\* the setup section rendered whatever the status
SetupRenderedInAnyStatus == mounted /\ ~(error # NoError /\ status = "setup")

\* `if (error && status === 'setup')` returns the blocking error page
ErrorPage == error # NoError /\ status = "setup"

SetupRendered == mounted /\ ~ErrorPage /\ status = "setup"

\* the completed section rendered whatever the status
CompletedRenderedInAnyStatus == mounted

CompletedRendered == mounted /\ status = "completed" /\ debateResults # Null

ErrorRendered == mounted /\ status = "error" /\ error # NoError /\ error # ""

\* ---- selection -----------------------------------------------------------
\* the toggle without the `prev.length >= 4` branch
ToggleWithoutCap(prev, modelId) ==
  IF Includes(prev, modelId) THEN Filter(prev, modelId) ELSE Append(prev, modelId)

\* the toggle without the branch that removes a selected id
ToggleNeverRemoves(prev, modelId) ==
  IF Includes(prev, modelId)
    THEN prev
    ELSE IF Len(prev) >= MaxSelected
           THEN prev
           ELSE Append(prev, modelId)

ToggleResult(prev, modelId) ==
  IF Includes(prev, modelId)
    THEN Filter(prev, modelId)
    ELSE IF Len(prev) >= MaxSelected
           THEN prev
           ELSE Append(prev, modelId)

handleModelToggle(modelId) ==
  /\ SetupRendered
  /\ selectedModels' = ToggleResult(selectedModels, modelId)
  /\ UNCHANGED <<models, rounds, status, debateId, messages, currentRound,
                 debateResults, error, eventSourceRef, mounted, es,
                 pendingStarts, pendingResults, fetched, started, delivered, badRun>>

setRounds(num) ==
  /\ SetupRendered
  /\ rounds' = num
  /\ UNCHANGED <<models, selectedModels, status, debateId, messages,
                 currentRound, debateResults, error, eventSourceRef, mounted,
                 es, pendingStarts, pendingResults, fetched, started, delivered,
                 badRun>>

\* ---- starting a session --------------------------------------------------
\* the guard dropped: every selection is sent
SelectionAlwaysAccepted(sel) == TRUE

\* the guard of handleStartDebate: `selectedModels.length === 0` returns early
SelectionAccepted(sel) == Len(sel) # 0

\* the request built with the initial rounds value instead of the chosen one
StartRequestInitialRounds(sel, num) == [model_ids |-> sel, rounds |-> DefaultRounds]

\* the argument of apiClient.startDebate
StartRequest(sel, num) == [model_ids |-> sel, rounds |-> num]

\* the id the server assigns to the next session it creates
FreshId == CHOOSE s \in SessionIds :
             /\ es[s].ready = "none"
             /\ \A t \in SessionIds : t < s => es[t].ready # "none"

\* handleStartDebate without the `return` after the validation error
handleStartDebateNoReturn ==
  /\ mounted /\ ~(error # NoError /\ status = "setup") /\ status = "setup"
  /\ started < MaxSessions
  /\ status' = "starting"
  /\ error' = NoError
  /\ messages' = <<>>
  /\ currentRound' = 0
  /\ pendingStarts' =
       Append(pendingStarts, [model_ids |-> selectedModels, rounds |-> rounds])
  /\ started' = started + 1
  /\ UNCHANGED <<models, selectedModels, rounds, debateId, debateResults,
                 eventSourceRef, mounted, es, pendingResults, fetched, delivered,
                 badRun>>

\* handleStartDebate without setMessages([]) and setCurrentRound(0)
handleStartDebateKeepsTranscript ==
  /\ SetupRendered
  /\ IF ~SelectionAccepted(selectedModels)
       THEN /\ error' = ErrSelect
            /\ UNCHANGED <<status, pendingStarts, started>>
       ELSE /\ started < MaxSessions
            /\ status' = "starting"
            /\ error' = NoError
            /\ pendingStarts' =
                 Append(pendingStarts, StartRequest(selectedModels, rounds))
            /\ started' = started + 1
  /\ UNCHANGED <<models, selectedModels, rounds, debateId, messages,
                 currentRound, debateResults, eventSourceRef, mounted, es,
                 pendingResults, fetched, delivered, badRun>>

\* handleStartDebate up to its first await
handleStartDebate ==
  /\ SetupRendered
  /\ IF ~SelectionAccepted(selectedModels)
       THEN /\ error' = ErrSelect
            /\ UNCHANGED <<status, messages, currentRound, pendingStarts,
                           started>>
       ELSE /\ started < MaxSessions
            /\ status' = "starting"
            /\ error' = NoError
            /\ messages' = <<>>
            /\ currentRound' = 0
            /\ pendingStarts' =
                 Append(pendingStarts, StartRequest(selectedModels, rounds))
            /\ started' = started + 1
  /\ UNCHANGED <<models, selectedModels, rounds, debateId, debateResults,
                 eventSourceRef, mounted, es, pendingResults, fetched, delivered,
                 badRun>>

\* the success path without `new EventSource`
StartSucceededWithoutStream(id, req) ==
  [debateId |-> id, status |-> "streaming", eventSourceRef |-> Null,
   source |-> [ready |-> "none", rounds |-> 0]]

\* the success path without setStatus('streaming')
StartSucceededWithoutStatus(id, req) ==
  [debateId |-> id, status |-> "starting", eventSourceRef |-> id,
   source |-> [ready |-> "open", rounds |-> req.rounds]]

\* the state written when startDebate resolves with debate_id = id
StartSucceeded(id, req) ==
  [debateId |-> id, status |-> "streaming", eventSourceRef |-> id,
   source |-> [ready |-> "open", rounds |-> req.rounds]]

\* handleStartDebate after the await, the call having resolved
StartResolved(i) ==
  /\ i \in 1..Len(pendingStarts)
  /\ LET id == FreshId
         r == StartSucceeded(id, pendingStarts[i])
     IN /\ debateId' = r.debateId
        /\ status' = r.status
        /\ es' = [es EXCEPT ![id] = r.source]
        /\ eventSourceRef' = r.eventSourceRef
  /\ pendingStarts' = RemoveAt(pendingStarts, i)
  /\ delivered' = <<>>
  /\ badRun' = 0
  /\ UNCHANGED <<models, selectedModels, rounds, messages, currentRound,
                 debateResults, error, mounted, pendingResults, fetched, started>>

\* the catch block recording a fixed text
StartFailureGeneric(reason) == ErrStartDefault

\* `err instanceof Error ? err.message : 'Failed to start debate'`
StartFailureText(reason) == IF reason = "null" THEN ErrStartDefault ELSE reason

\* the catch block of handleStartDebate, the call having been rejected
StartRejected(i, reason) ==
  /\ i \in 1..Len(pendingStarts)
  /\ error' = StartFailureText(reason)
  /\ status' = "error"
  /\ pendingStarts' = RemoveAt(pendingStarts, i)
  /\ UNCHANGED <<models, selectedModels, rounds, debateId, messages,
                 currentRound, debateResults, eventSourceRef, mounted, es,
                 pendingResults, fetched, started, delivered, badRun>>

\* close() that leaves the source delivering events
StillOpen == [ready |-> "open", rounds |-> 0]

\* a source after close(): it delivers no further event, so the values its
\* listeners captured are dropped with it
Closed == [ready |-> "closed", rounds |-> 0]

\* ---- stream events -------------------------------------------------------
\* JavaScript `a || b` on numbers: 0 and an absent value are falsy
OrElse(a, b) == IF a # NoValue /\ a # 0 THEN a ELSE b

\* the `message` case putting the new turn first
handleStreamEventPrepend(eventType, data, capturedRounds) ==
  [messages |->
     IF eventType = "message" THEN <<data>> \o messages ELSE messages,
   currentRound |->
     IF eventType = "round_complete"
       THEN OrElse(data.next_round, data.round + 1)
       ELSE IF eventType = "debate_complete"
              THEN OrElse(data.total_rounds, capturedRounds)
              ELSE currentRound,
   error |->
     IF eventType = "error"
       THEN (IF data.message # "null" /\ data.message # ""
               THEN data.message ELSE ErrStreamDefault)
       ELSE error]

\* the `message` case also moving currentRound to the turn's round
handleStreamEventRoundFromTurn(eventType, data, capturedRounds) ==
  [messages |->
     IF eventType = "message" THEN Append(messages, data) ELSE messages,
   currentRound |->
     IF eventType = "message"
       THEN data.round
       ELSE IF eventType = "round_complete"
              THEN OrElse(data.next_round, data.round + 1)
              ELSE IF eventType = "debate_complete"
                     THEN OrElse(data.total_rounds, capturedRounds)
                     ELSE currentRound,
   error |->
     IF eventType = "error"
       THEN (IF data.message # "null" /\ data.message # ""
               THEN data.message ELSE ErrStreamDefault)
       ELSE error]

\* the round_complete case ignoring next_round
handleStreamEventIgnoreNext(eventType, data, capturedRounds) ==
  [messages |->
     IF eventType = "message" THEN Append(messages, data) ELSE messages,
   currentRound |->
     IF eventType = "round_complete"
       THEN data.round + 1
       ELSE IF eventType = "debate_complete"
              THEN OrElse(data.total_rounds, capturedRounds)
              ELSE currentRound,
   error |->
     IF eventType = "error"
       THEN (IF data.message # "null" /\ data.message # ""
               THEN data.message ELSE ErrStreamDefault)
       ELSE error]

\* the debate_complete case ignoring total_rounds
handleStreamEventIgnoreTotal(eventType, data, capturedRounds) ==
  [messages |->
     IF eventType = "message" THEN Append(messages, data) ELSE messages,
   currentRound |->
     IF eventType = "round_complete"
       THEN OrElse(data.next_round, data.round + 1)
       ELSE IF eventType = "debate_complete"
              THEN capturedRounds
              ELSE currentRound,
   error |->
     IF eventType = "error"
       THEN (IF data.message # "null" /\ data.message # ""
               THEN data.message ELSE ErrStreamDefault)
       ELSE error]

\* the debate_complete case keeping currentRound when total_rounds is falsy
handleStreamEventKeepRound(eventType, data, capturedRounds) ==
  [messages |->
     IF eventType = "message" THEN Append(messages, data) ELSE messages,
   currentRound |->
     IF eventType = "round_complete"
       THEN OrElse(data.next_round, data.round + 1)
       ELSE IF eventType = "debate_complete"
              THEN OrElse(data.total_rounds, currentRound)
              ELSE currentRound,
   error |->
     IF eventType = "error"
       THEN (IF data.message # "null" /\ data.message # ""
               THEN data.message ELSE ErrStreamDefault)
       ELSE error]

\* handleStreamEvent: the values of messages, currentRound and error after
\* the switch; capturedRounds is `rounds` of the render that started the
\* session
handleStreamEvent(eventType, data, capturedRounds) ==
  [messages |->
     IF eventType = "message" THEN Append(messages, data) ELSE messages,
   currentRound |->
     IF eventType = "round_complete"
       THEN OrElse(data.next_round, data.round + 1)
       ELSE IF eventType = "debate_complete"
              THEN OrElse(data.total_rounds, capturedRounds)
              ELSE currentRound,
   error |->
     IF eventType = "error"
       THEN (IF data.message # "null" /\ data.message # ""
               THEN data.message ELSE ErrStreamDefault)
       ELSE error]

NoData == [none |-> NoValue]
\* round_complete payloads: the first and the last round, with next_round
\* absent, 0, the first or the last round
RoundCompleteData ==
  [round : {1, MaxRound}, next_round : {NoValue, 0, 1, MaxRound}]
DebateCompleteData == [total_rounds : {NoValue} \cup 0..MaxRound]
ErrorData == [message : StreamErrorMessages]

\* a listener of the kinds debate_started, model_thinking, message and
\* round_complete: JSON.parse, then handleStreamEvent; a payload that does
\* not parse makes JSON.parse throw out of the listener
Listener(s, eventType, data, parses) ==
  /\ es[s].ready = "open"
  /\ IF parses
       THEN LET r == handleStreamEvent(eventType, data, es[s].rounds)
            IN /\ messages' = r.messages
               /\ currentRound' = r.currentRound
               /\ error' = r.error
               /\ badRun' = 0
               /\ delivered' = IF eventType = "message"
                                 THEN Append(delivered, data) ELSE delivered
       ELSE /\ badRun' = badRun + 1
            /\ UNCHANGED <<messages, currentRound, error, delivered>>
  /\ UNCHANGED <<models, selectedModels, rounds, status, debateId,
                 debateResults, eventSourceRef, mounted, es, pendingStarts,
                 pendingResults, fetched, started>>

OnDebateStarted(s, parses) ==
  /\ parses \/ badRun < MaxBadRun
  /\ Listener(s, "debate_started", NoData, parses)

OnModelThinking(s, parses) ==
  /\ parses \/ badRun < MaxBadRun
  /\ Listener(s, "model_thinking", NoData, parses)

OnMessage(s, data, parses) ==
  /\ parses \/ badRun < MaxBadRun
  /\ parses => Len(delivered) < MaxMsgs
  /\ Listener(s, "message", data, parses)

OnRoundComplete(s, data, parses) ==
  /\ parses \/ badRun < MaxBadRun
  /\ Listener(s, "round_complete", data, parses)

\* the debate_complete listener without close() and the ref reset
OnDebateCompleteNoClose(s, data, parses) ==
  /\ es[s].ready = "open"
  /\ parses \/ badRun < MaxBadRun
  /\ IF parses
       THEN LET r == handleStreamEvent("debate_complete", data, es[s].rounds)
            IN /\ messages' = r.messages
               /\ currentRound' = r.currentRound
               /\ error' = r.error
               /\ badRun' = 0
               /\ pendingResults' = Append(pendingResults, s)
               /\ fetched' = [fetched EXCEPT ![s] = @ + 1]
       ELSE /\ badRun' = badRun + 1
            /\ UNCHANGED <<messages, currentRound, error, pendingResults,
                           fetched>>
  /\ UNCHANGED <<models, selectedModels, rounds, status, debateId,
                 debateResults, eventSourceRef, mounted, es, pendingStarts,
                 started, delivered>>

\* the debate_complete listener up to its await
OnDebateComplete(s, data, parses) ==
  /\ es[s].ready = "open"
  /\ parses \/ badRun < MaxBadRun
  /\ IF parses
       THEN LET r == handleStreamEvent("debate_complete", data, es[s].rounds)
            IN /\ messages' = r.messages
               /\ currentRound' = r.currentRound
               /\ error' = r.error
               /\ badRun' = 0
               /\ es' = [es EXCEPT ![s] = Closed]
               /\ eventSourceRef' = Null
               /\ pendingResults' = Append(pendingResults, s)
               /\ fetched' = [fetched EXCEPT ![s] = @ + 1]
       ELSE /\ badRun' = badRun + 1
            /\ UNCHANGED <<messages, currentRound, error, es, eventSourceRef,
                           pendingResults, fetched>>
  /\ UNCHANGED <<models, selectedModels, rounds, status, debateId,
                 debateResults, mounted, pendingStarts, started, delivered>>

\* the results the server holds for debate s
ResultsOf(s) == s

\* the success path of the fetch without setStatus('completed')
ResultsResolvedWithoutStatus(i) ==
  /\ i \in 1..Len(pendingResults)
  /\ debateResults' = pendingResults[i]
  /\ pendingResults' = RemoveAt(pendingResults, i)
  /\ UNCHANGED <<models, selectedModels, rounds, status, debateId, messages,
                 currentRound, error, eventSourceRef, mounted, es,
                 pendingStarts, fetched, started, delivered, badRun>>

\* the success path of the fetch without setDebateResults(results)
ResultsResolvedWithoutResults(i) ==
  /\ i \in 1..Len(pendingResults)
  /\ status' = "completed"
  /\ pendingResults' = RemoveAt(pendingResults, i)
  /\ UNCHANGED <<models, selectedModels, rounds, debateId, messages,
                 currentRound, debateResults, error, eventSourceRef, mounted,
                 es, pendingStarts, fetched, started, delivered, badRun>>

\* the debate_complete listener after the await, the fetch having resolved
ResultsResolved(i) ==
  /\ i \in 1..Len(pendingResults)
  /\ debateResults' = ResultsOf(pendingResults[i])
  /\ status' = "completed"
  /\ pendingResults' = RemoveAt(pendingResults, i)
  /\ UNCHANGED <<models, selectedModels, rounds, debateId, messages,
                 currentRound, error, eventSourceRef, mounted, es,
                 pendingStarts, fetched, started, delivered, badRun>>

\* the catch block of the debate_complete listener: console.error only
ResultsRejected(i) ==
  /\ i \in 1..Len(pendingResults)
  /\ pendingResults' = RemoveAt(pendingResults, i)
  /\ UNCHANGED <<models, selectedModels, rounds, status, debateId, messages,
                 currentRound, debateResults, error, eventSourceRef, mounted,
                 es, pendingStarts, fetched, started, delivered, badRun>>

\* the `error` listener on a server-sent error event: the parse failure is
\* caught
OnErrorEvent(s, data, parses) ==
  /\ es[s].ready = "open"
  /\ parses \/ badRun < MaxBadRun
  /\ IF parses
       THEN /\ error' = handleStreamEvent("error", data, es[s].rounds).error
            /\ badRun' = 0
       ELSE /\ badRun' = badRun + 1
            /\ UNCHANGED error
  /\ UNCHANGED <<models, selectedModels, rounds, status, debateId, messages,
                 currentRound, debateResults, eventSourceRef, mounted, es,
                 pendingStarts, pendingResults, fetched, started, delivered>>

\* a transport error: the `error` listener sees an event without data
\* (`event.data || '{}'`), then onerror runs; closed tells whether the
\* browser gave the connection up (readyState CLOSED) or is reconnecting
OnTransportError(s, closed) ==
  /\ es[s].ready = "open"
  /\ LET afterListener ==
           handleStreamEvent("error", [message |-> "null"], es[s].rounds).error
     IN error' = IF closed THEN ErrLost ELSE afterListener
  /\ es' = [es EXCEPT ![s] = IF closed THEN Closed ELSE @]
  /\ UNCHANGED <<models, selectedModels, rounds, status, debateId, messages,
                 currentRound, debateResults, eventSourceRef, mounted,
                 pendingStarts, pendingResults, fetched, started, delivered, badRun>>

\* ---- resets and teardown -------------------------------------------------
\* "Start New Debate" clearing the selection and the rounds as well
StartNewDebateClearsSetup ==
  /\ CompletedRendered
  /\ status' = "setup"
  /\ messages' = <<>>
  /\ debateResults' = Null
  /\ debateId' = Null
  /\ delivered' = <<>>
  /\ selectedModels' = <<>>
  /\ rounds' = DefaultRounds
  /\ UNCHANGED <<models, currentRound, error, eventSourceRef, mounted, es,
                 pendingStarts, pendingResults, fetched, started, badRun>>

\* "Start New Debate" leaving the session id and the results in place
StartNewDebateKeepsSession ==
  /\ CompletedRendered
  /\ status' = "setup"
  /\ messages' = <<>>
  /\ delivered' = <<>>
  /\ UNCHANGED <<models, selectedModels, rounds, debateId, debateResults,
                 currentRound, error, eventSourceRef, mounted, es,
                 pendingStarts, pendingResults, fetched, started, badRun>>

\* "Start New Debate" without setDebateId(null)
StartNewDebateKeepsId ==
  /\ CompletedRendered
  /\ status' = "setup"
  /\ messages' = <<>>
  /\ debateResults' = Null
  /\ delivered' = <<>>
  /\ UNCHANGED <<models, selectedModels, rounds, debateId, currentRound,
                 error, eventSourceRef, mounted, es, pendingStarts,
                 pendingResults, fetched, started, badRun>>

\* onClick of "Start New Debate"; the session is discarded, and its delivery
\* log with it
StartNewDebate ==
  /\ CompletedRendered
  /\ status' = "setup"
  /\ messages' = <<>>
  /\ debateResults' = Null
  /\ debateId' = Null
  /\ delivered' = <<>>
  /\ UNCHANGED <<models, selectedModels, rounds, currentRound, error,
                 eventSourceRef, mounted, es, pendingStarts, pendingResults, fetched,
                 started, badRun>>

\* "Try Again" re-issuing the start instead of returning to setup
TryAgainRestarts ==
  /\ ErrorRendered
  /\ status' = "starting"
  /\ error' = NoError
  /\ UNCHANGED <<models, selectedModels, rounds, debateId, messages,
                 currentRound, debateResults, eventSourceRef, mounted, es,
                 pendingStarts, pendingResults, fetched, started, delivered, badRun>>

\* onClick of "Try Again"
TryAgain ==
  /\ ErrorRendered
  /\ status' = "setup"
  /\ error' = NoError
  /\ UNCHANGED <<models, selectedModels, rounds, debateId, messages,
                 currentRound, debateResults, eventSourceRef, mounted, es,
                 pendingStarts, pendingResults, fetched, started, delivered, badRun>>

\* the cleanup of the unmount effect
Unmount ==
  /\ mounted
  /\ mounted' = FALSE
  /\ IF eventSourceRef # Null
       THEN /\ es' = [es EXCEPT ![eventSourceRef] = Closed]
            /\ eventSourceRef' = Null
       ELSE UNCHANGED <<es, eventSourceRef>>
  /\ UNCHANGED <<models, selectedModels, rounds, status, debateId, messages,
                 currentRound, debateResults, error, pendingStarts,
                 pendingResults, fetched, started, delivered, badRun>>

\* ---- specifications ------------------------------------------------------
\* the state once the page has loaded the market and n supported models
Loaded(n) ==
  /\ models = 1..n
  /\ selectedModels = <<>>
  /\ rounds = DefaultRounds
  /\ status = "setup"
  /\ debateId = Null
  /\ messages = <<>>
  /\ currentRound = 0
  /\ debateResults = Null
  /\ error = NoError
  /\ eventSourceRef = Null
  /\ mounted = TRUE
  /\ es = [s \in SessionIds |-> [ready |-> "none", rounds |-> 0]]
  /\ pendingStarts = <<>>
  /\ pendingResults = <<>>
  /\ fetched = [s \in SessionIds |-> 0]
  /\ started = 0
  /\ delivered = <<>>
  /\ badRun = 0

Init == Loaded(NumModels)

UserSetup ==
  \/ \E m \in models : handleModelToggle(m)
  \/ \E num \in RoundChoices : setRounds(num)
  \/ handleStartDebate

StartOutcome ==
  \/ \E i \in 1..Len(pendingStarts) : StartResolved(i)
  \/ \E i \in 1..Len(pendingStarts), reason \in StartFailures :
       StartRejected(i, reason)

StreamEvents ==
  \E s \in SessionIds :
    \/ \E parses \in BOOLEAN : OnDebateStarted(s, parses)
    \/ \E parses \in BOOLEAN : OnModelThinking(s, parses)
    \/ \E data \in Turns : OnMessage(s, data, TRUE)
    \/ \E data \in RoundCompleteData : OnRoundComplete(s, data, TRUE)
    \/ \E data \in DebateCompleteData : OnDebateComplete(s, data, TRUE)
    \/ \E data \in ErrorData : OnErrorEvent(s, data, TRUE)

\* the same events with a payload that is not JSON
MalformedEvents ==
  \E s \in SessionIds :
    \/ OnMessage(s, NoData, FALSE)
    \/ OnRoundComplete(s, NoData, FALSE)
    \/ OnDebateComplete(s, NoData, FALSE)
    \/ OnErrorEvent(s, NoData, FALSE)

TransportErrors ==
  \E s \in SessionIds, closed \in BOOLEAN : OnTransportError(s, closed)

ResultsOutcome ==
  \/ \E i \in 1..Len(pendingResults) : ResultsResolved(i)
  \/ \E i \in 1..Len(pendingResults) : ResultsRejected(i)

Next ==
  \/ UserSetup
  \/ StartOutcome
  \/ StreamEvents
  \/ MalformedEvents
  \/ TransportErrors
  \/ ResultsOutcome
  \/ StartNewDebate
  \/ TryAgain
  \/ Unmount

Spec == Init /\ [][Next]_vars

\* the stream ends: it delivers debate_complete, or it fails with an `error`
\* event or with a transport error that closes the connection
StreamEnds ==
  \E s \in SessionIds :
    \/ \E data \in DebateCompleteData : OnDebateComplete(s, data, TRUE)
    \/ \E data \in ErrorData : OnErrorEvent(s, data, TRUE)
    \/ OnTransportError(s, TRUE)

\* the lifecycle under the assumptions that every start call and every
\* results fetch is answered and that every stream ends
SpecLive ==
  /\ Spec
  /\ WF_vars(StartOutcome)
  /\ WF_vars(ResultsOutcome)
  /\ WF_vars(StreamEnds)

\* the setup phase with a full list of models, up to the outcome of the
\* start call and the user's retry; the stream delivers nothing
InitSetup == Loaded(SetupModels)

NextSetup ==
  \/ \E m \in models : handleModelToggle(m)
  \/ \E num \in RoundChoices : setRounds(num)
  \/ handleStartDebate
  \/ \E i \in 1..Len(pendingStarts) : StartResolved(i)
  \/ \E i \in 1..Len(pendingStarts), reason \in StartFailures :
       StartRejected(i, reason)
  \/ TryAgain

SpecSetup == InitSetup /\ [][NextSetup]_vars

\* ---- the selection (C1 - C3) ---------------------------------------------
\* C1: the selection never holds more than 4 ids nor the same id twice, and
\* toggling an unselected model while 4 are selected changes neither the
\* selection nor the error text.
C1_SelectionBounded ==
  /\ [](Len(selectedModels) <= MaxSelected /\ NoDuplicates(selectedModels))
  /\ [][\A m \in models :
          (/\ handleModelToggle(m)
           /\ Len(selectedModels) = MaxSelected
           /\ ~Includes(selectedModels, m))
          => (selectedModels' = selectedModels /\ error' = error)]_vars

C1_Witness ==
  /\ Len(selectedModels) = MaxSelected
  /\ SetupRendered
  /\ \E m \in models : ~Includes(selectedModels, m)

\* C2: every start request in flight carries 1 to 4 distinct model ids and a
\* rounds value in 1..5.
C2_RequestWellFormed ==
  \A i \in 1..Len(pendingStarts) :
    /\ Len(pendingStarts[i].model_ids) \in 1..MaxSelected
    /\ NoDuplicates(pendingStarts[i].model_ids)
    /\ pendingStarts[i].rounds \in MinRoundChoice..MaxRoundChoice

C2_Witness ==
  \E i \in 1..Len(pendingStarts) :
    /\ Len(pendingStarts[i].model_ids) = MaxSelected
    /\ pendingStarts[i].rounds = MaxRoundChoice

\* C3: a start request with an empty selection, or with more than 4 selected,
\* records the validation error, issues no start call, opens no subscription
\* and leaves the status at setup.
C3_FailFast ==
  [][(/\ handleStartDebate
      /\ (Len(selectedModels) = 0 \/ Len(selectedModels) > MaxSelected))
     => (/\ error' = ErrSelect
         /\ status = "setup" /\ status' = "setup"
         /\ UNCHANGED <<pendingStarts, started, es, eventSourceRef>>)]_vars

C3_Witness ==
  /\ error = ErrSelect
  /\ status = "setup"
  /\ selectedModels = <<>>
  /\ pendingStarts = <<>>

\* ---- starting (C4 - C7) --------------------------------------------------
\* C4: a start request with a non-empty selection moves setup to starting and
\* issues the call with the selected ids in selection order and the chosen
\* rounds; when the call resolves, the status is streaming and debateId is
\* the id of the response.
C4_StartCarriesSelection ==
  [][/\ (handleStartDebate /\ Len(selectedModels) # 0)
          => (/\ status = "setup" /\ status' = "starting"
              /\ pendingStarts' =
                   Append(pendingStarts,
                          [model_ids |-> selectedModels, rounds |-> rounds]))
     /\ \A i \in 1..Len(pendingStarts) :
          StartResolved(i)
            => (/\ status = "starting" /\ status' = "streaming"
                /\ debateId' = FreshId)]_vars

C4_Witness ==
  /\ status = "streaming"
  /\ debateId # Null
  /\ selectedModels = <<2, 1>>
  /\ rounds # DefaultRounds

\* C5: a subscription is opened only by the step from starting to streaming,
\* and that step opens exactly one, for the debate id it stores.
Opened(s) == es[s].ready # "open" /\ es'[s].ready = "open"

C5_OneSubscriptionPerStart ==
  [][/\ (\E s \in SessionIds : Opened(s))
          => (status = "starting" /\ status' = "streaming")
     /\ (status = "starting" /\ status' = "streaming")
          => \E s \in SessionIds :
               /\ Opened(s)
               /\ \A t \in SessionIds : Opened(t) => t = s
               /\ debateId' = s
               /\ eventSourceRef' = s]_vars

C5_Witness ==
  /\ status = "streaming"
  /\ eventSourceRef # Null
  /\ eventSourceRef = debateId
  /\ es[eventSourceRef].ready = "open"

\* C6: when the start call is rejected the status goes from starting to
\* error in one step, no subscription is opened, and the error text is the
\* rejection's message.
C6_StartFailure ==
  [][\A i \in 1..Len(pendingStarts), reason \in StartFailures :
       StartRejected(i, reason)
         => (/\ status = "starting" /\ status' = "error"
             /\ error' = (IF reason = "null" THEN ErrStartDefault ELSE reason)
             /\ UNCHANGED <<es, eventSourceRef, debateId>>)]_vars

C6_Witness ==
  /\ status = "error"
  /\ error = "HTTP 500"
  /\ \A s \in SessionIds : es[s].ready # "open"

\* C7: at most one start call is outstanding, and only while the status is
\* starting.
C7_OneStartOutstanding ==
  /\ Len(pendingStarts) <= 1
  /\ Len(pendingStarts) = 1 => status = "starting"

C7_Witness ==
  /\ Len(pendingStarts) = 1
  /\ started = MaxSessions

\* ---- the transcript and the round (C8 - C10) -----------------------------
\* C8: while a session streams and after it completed, the transcript is the
\* sequence of the payloads of the `message` events its subscription
\* delivered, in the order of their delivery.
C8_TranscriptInArrivalOrder ==
  status \in {"streaming", "completed"} => messages = delivered

C8_Witness ==
  /\ status = "streaming"
  /\ Len(messages) = 2
  /\ messages[1].round > messages[2].round

\* C9: message, debate_started and model_thinking events leave currentRound
\* and status as they are; debate_started and model_thinking also leave the
\* transcript, the results and the error text as they are.  Stated by
\* contraposition: a step that changes one of these is not such an event.
InformationalStep(s) ==
  \/ \E p \in BOOLEAN : OnDebateStarted(s, p)
  \/ \E p \in BOOLEAN : OnModelThinking(s, p)

MessageStep(s) ==
  \/ \E d \in Turns : OnMessage(s, d, TRUE)
  \/ OnMessage(s, NoData, FALSE)

C9_InformationalEvents ==
  [][/\ (currentRound' # currentRound \/ status' # status)
          => \A s \in SessionIds : ~MessageStep(s) /\ ~InformationalStep(s)
     /\ (messages' # messages \/ debateResults' # debateResults
            \/ error' # error)
          => \A s \in SessionIds : ~InformationalStep(s)]_vars

C9_Witness ==
  /\ status = "streaming"
  /\ Len(messages) = 1
  /\ currentRound = 2
  /\ badRun = 0

\* C10: while a session streams, no step lowers currentRound.
C10_RoundNeverDecreases ==
  [][status = "streaming" => currentRound' >= currentRound]_vars

\* ---- round advance and completion (C11 - C15) ----------------------------
\* the sources that can deliver an event
OpenSources == {s \in SessionIds : es[s].ready = "open"}

\* C11 as stated: on round_complete, currentRound becomes next_round when the
\* event carries one, and round + 1 exactly when next_round is absent.
C11_NextRoundWhenCarried ==
  [][\A s \in OpenSources, d \in RoundCompleteData :
       \/ currentRound' = (IF d.next_round # NoValue
                             THEN d.next_round ELSE d.round + 1)
       \/ ~OnRoundComplete(s, d, TRUE)]_vars

\* C11 as amended: on round_complete, currentRound becomes next_round when
\* the event carries a non-zero one, and round + 1 when next_round is absent
\* or 0; the value depends on the payload alone.
C11_NextRoundWhenNonZero ==
  [][\A s \in OpenSources, d \in RoundCompleteData :
       \/ currentRound' = (IF d.next_round # NoValue /\ d.next_round # 0
                             THEN d.next_round ELSE d.round + 1)
       \/ ~OnRoundComplete(s, d, TRUE)]_vars

C11_Witness ==
  /\ status = "streaming"
  /\ eventSourceRef # Null
  /\ currentRound = MaxRound + 1

\* what C12 says of the step that handles debate_complete of source s
CompletionEffects(s) ==
  /\ es'[s].ready = "closed"
  /\ eventSourceRef' = Null
  /\ s = debateId
  /\ pendingResults' = Append(pendingResults, s)

\* C12 as stated: debate_complete {total_rounds: n} sets currentRound to n,
\* closes the subscription and clears the handle in the same step, and issues
\* the results fetch for the session of the event.
C12_CompleteSetsTotal ==
  [][\A s \in OpenSources, d \in DebateCompleteData :
       \/ d.total_rounds = NoValue
       \/ (currentRound' = d.total_rounds /\ CompletionEffects(s))
       \/ ~OnDebateComplete(s, d, TRUE)]_vars

\* C12 as amended: the same for n # 0.
C12_CompleteSetsNonZeroTotal ==
  [][\A s \in OpenSources, d \in DebateCompleteData :
       \/ d.total_rounds = NoValue \/ d.total_rounds = 0
       \/ (currentRound' = d.total_rounds /\ CompletionEffects(s))
       \/ ~OnDebateComplete(s, d, TRUE)]_vars

C12_Witness ==
  /\ pendingResults # <<>>
  /\ pendingResults[1] = debateId
  /\ currentRound = MaxRound
  /\ eventSourceRef = Null
  /\ es[debateId].ready = "closed"

\* C13: the results fetch is issued at most once per debate id, and only by
\* the step that handles that debate's debate_complete event.
C13_ResultsFetchedOnce ==
  /\ [](\A s \in SessionIds : fetched[s] <= 1)
  /\ [][\A s \in SessionIds :
          fetched'[s] # fetched[s]
            => (/\ es[s].ready = "open"
                /\ fetched'[s] = fetched[s] + 1
                /\ pendingResults' = Append(pendingResults, s)
                /\ \E d \in DebateCompleteData :
                     OnDebateComplete(s, d, TRUE))]_vars

C13_Witness ==
  /\ \E s \in SessionIds : fetched[s] = 1 /\ es[s].ready = "closed"
  /\ pendingResults = <<>>
  /\ status = "completed"

\* C14: when the results fetch resolves, its response becomes debateResults
\* and the status becomes completed.
C14_ResultsAttached ==
  [][\A i \in 1..Len(pendingResults) :
       ResultsResolved(i)
         => (/\ debateResults' = ResultsOf(pendingResults[i])
             /\ debateResults' # Null
             /\ status' = "completed")]_vars

C14_Witness ==
  /\ status = "completed"
  /\ debateResults # Null
  /\ debateResults = ResultsOf(debateId)

\* C15: when the results fetch issued after debate_complete is rejected, the
\* status is completed, no results are attached and the failure is recorded
\* in the error text.
C15_ResultsFailureCompletes ==
  [][\A i \in 1..Len(pendingResults) :
       ResultsRejected(i)
         => (/\ status' = "completed"
             /\ debateResults' = Null
             /\ error' # NoError)]_vars

\* ---- stream failures (C16, C17) ------------------------------------------
\* C16: while streaming, an `error` event, or a transport error that closes
\* the connection for good, moves the status to error, records the reason
\* and leaves no subscription open.
C16_StreamErrorIsFatal ==
  [][(/\ status = "streaming"
      /\ \E s \in SessionIds :
           \/ \E d \in ErrorData : OnErrorEvent(s, d, TRUE)
           \/ OnTransportError(s, TRUE))
     => (/\ status' = "error"
         /\ error' # NoError
         /\ \A s \in SessionIds : es'[s].ready # "open")]_vars

\* C17: a payload that does not parse raises no uncaught fault and leaves the
\* subscription delivering; after three unparsable payloads in a row the
\* status is error.
C17_ThreeMalformedEscalate ==
  badRun >= 3 => status = "error"

\* ---- terminal states and the subscription (C18 - C20) --------------------
\* C18: once the status is completed or error, only a user reset changes the
\* transcript, currentRound, the results, debateId or the status.
C18_TerminalStatesFrozen ==
  [][(/\ status \in {"completed", "error"}
      /\ \/ messages' # messages
         \/ currentRound' # currentRound
         \/ debateResults' # debateResults
         \/ debateId' # debateId
         \/ status' # status)
     => (StartNewDebate \/ TryAgain)]_vars

C18_Witness ==
  /\ status = "completed"
  /\ messages # <<>>
  /\ currentRound # 0
  /\ \A s \in SessionIds : es[s].ready # "open"
  /\ pendingResults = <<>>

\* C19: whenever the status is not streaming, no subscription is open and the
\* handle is null.
C19_NoSubscriptionOutsideStreaming ==
  status # "streaming"
    => (/\ \A s \in SessionIds : es[s].ready # "open"
        /\ eventSourceRef = Null)

C19_Witness ==
  /\ status = "setup"
  /\ \E s \in SessionIds : es[s].ready = "closed"

\* C20: whenever the status is streaming, the handle is non-null and its
\* subscription is open.
C20_HandleWhileStreaming ==
  status = "streaming"
    => (eventSourceRef # Null /\ es[eventSourceRef].ready = "open")

\* ---- closing, resets and teardown (C21 - C26) ----------------------------
\* C21: the close of a subscription takes effect exactly once: every open
\* subscription is the one the handle of the mounted component refers to, so
\* that the exit path that comes first closes it, and a subscription that
\* was closed stays closed.
C21_ClosedExactlyOnce ==
  /\ [](\A s \in SessionIds :
          es[s].ready = "open" => (mounted /\ eventSourceRef = s))
  /\ [][\A s \in SessionIds :
          es[s].ready = "closed" => es'[s].ready = "closed"]_vars

\* C22: a user reset leads to the status setup with debateId null, an empty
\* transcript, no results and no subscription open.
C22_ResetClearsSession ==
  [][(StartNewDebate \/ TryAgain)
     => (/\ status' = "setup"
         /\ debateId' = Null
         /\ messages' = <<>>
         /\ debateResults' = Null
         /\ \A s \in SessionIds : es'[s].ready # "open")]_vars

\* a reset from completed has been followed by a start that failed and by a
\* reset from error
C22_Witness ==
  /\ status = "setup"
  /\ started = MaxSessions
  /\ error = NoError
  /\ pendingStarts = <<>>
  /\ \E s \in SessionIds : fetched[s] = 1
  /\ \E s \in SessionIds : es[s].ready = "none"

C25_ErrorLeftOnlyByReset ==
  [][status = "error"
     => (/\ pendingStarts' = pendingStarts
         /\ started' = started
         /\ \A s \in SessionIds : es'[s].ready = es[s].ready
         /\ status' # status => (TryAgain /\ status' = "setup"))]_vars

\* a start was rejected and the user has reset from the error state
C25_Witness ==
  /\ status = "setup"
  /\ started = 1
  /\ pendingStarts = <<>>
  /\ error = NoError
  /\ \A s \in SessionIds : es[s].ready = "none"

\* C24: every session whose start was requested reaches completed or error
\* unless the page is left first, and a terminal status is entered only from
\* a status that is not terminal.
C24_ReachesTerminalOnce ==
  /\ (status = "starting") ~> (status \in {"completed", "error"} \/ ~mounted)
  /\ [][(status' \in {"completed", "error"} /\ status' # status)
          => status \notin {"completed", "error"}]_vars

\* C26: after the component was unmounted no subscription is open.
C26_NoSubscriptionAfterTeardown ==
  ~mounted => \A s \in SessionIds : es[s].ready # "open"

\* ---- a new session starts clean (C27 - C30) ------------------------------
\* C27: while the status is starting the transcript is empty and
\* currentRound is 0, and while it is streaming every turn of the transcript
\* was delivered by the subscription of the current session.
C27_NoTranscriptLeak ==
  /\ status = "starting" => (messages = <<>> /\ currentRound = 0)
  /\ status = "streaming"
       => /\ Len(messages) <= Len(delivered)
          /\ \A i \in 1..Len(messages) : Includes(delivered, messages[i])

\* the second session has streamed its first turn, the first session having
\* completed and been reset
C27_Witness ==
  /\ status = "streaming"
  /\ debateId = MaxSessions
  /\ fetched[1] = 1
  /\ Len(messages) = 1
  /\ currentRound = 0

\* C28: a user reset leaves the error text absent, so that the setup screen
\* is shown and not the blocking error page.
C28_ResetClearsError ==
  [][(StartNewDebate \/ TryAgain) => (error' = NoError /\ ~ErrorPage')]_vars

\* C29: while the status is setup or starting, debateId is null.
C29_NoIdBeforeStart ==
  status \in {"setup", "starting"} => debateId = Null

\* a second start is pending after the first session was completed and reset
C29_Witness ==
  /\ status = "starting"
  /\ started = MaxSessions
  /\ fetched[1] = 1
  /\ debateId = Null

\* C30: whenever the status is completed, results are attached and they are
\* the response of the fetch issued for the current debateId.
C30_CompletedHasResults ==
  status = "completed"
    => (/\ debateResults # Null
        /\ debateId # Null
        /\ fetched[debateId] = 1
        /\ debateResults = ResultsOf(debateId))

\* the second session completed
C30_Witness ==
  /\ status = "completed"
  /\ debateId = MaxSessions
  /\ debateResults = ResultsOf(MaxSessions)

\* ---- the round shown and the setup values (C31 - C34) --------------------
\* C31: a round_complete event that reports a round within the rounds
\* requested, with next_round absent or within them too, leaves currentRound
\* at most the rounds requested.
C31_RoundWithinRequested ==
  [][\A s \in OpenSources, d \in RoundCompleteData :
       (/\ d.round \in 1..es[s].rounds
        /\ d.next_round \in {NoValue} \cup 1..es[s].rounds
        /\ OnRoundComplete(s, d, TRUE))
         => currentRound' <= es[s].rounds]_vars

\* C32: on debate_complete, currentRound becomes total_rounds when the event
\* carries a non-zero one, and otherwise the rounds value the session was
\* started with, which is the rounds value of the page.
C32_CompleteFallsBackToRounds ==
  [][\A s \in OpenSources, d \in DebateCompleteData :
       \/ /\ currentRound' = (IF d.total_rounds # NoValue /\ d.total_rounds # 0
                                 THEN d.total_rounds ELSE es[s].rounds)
          /\ es[s].rounds = rounds
       \/ ~OnDebateComplete(s, d, TRUE)]_vars

\* a debate completed with currentRound at a rounds value no event carries
C32_Witness ==
  /\ pendingResults # <<>>
  /\ rounds > MaxRound + 1
  /\ currentRound = rounds
  /\ eventSourceRef = Null

\* C33: the selection is changed only by the toggle and rounds only by the
\* round choice.
C33_SetupValuesFramed ==
  [][/\ selectedModels' # selectedModels
          => \E m \in models : handleModelToggle(m)
     /\ rounds' # rounds
          => \E num \in RoundChoices : setRounds(num)]_vars

\* a second session completed with the selection and the rounds chosen
C33_Witness ==
  /\ status = "completed"
  /\ debateId = MaxSessions
  /\ selectedModels # <<>>
  /\ rounds = MaxRoundChoice

\* the set of the ids of a selection
Selected(sel) == {sel[i] : i \in 1..Len(sel)}

\* C34: toggling the same model twice in a row restores the set of selected
\* models, for every reachable selection and every model.
C34_ToggleTwiceRestores ==
  \A m \in models :
    Selected(ToggleResult(ToggleResult(selectedModels, m), m))
      = Selected(selectedModels)

\* a full selection where the two toggles of a selected model change the
\* order, and a model is left that the cap keeps out
C34_Witness ==
  /\ SetupRendered
  /\ Len(selectedModels) = MaxSelected
  /\ \E m \in models : ~Includes(selectedModels, m)
  /\ \E m \in models :
       ToggleResult(ToggleResult(selectedModels, m), m) # selectedModels

====
